---- MODULE Spec2Model ----
(***************************************************************************)
(* Model of the Moonraker component AdditionalPrePrintChecks               *)
(* (src/additional_pre_print_checks.py).                                   *)
(*                                                                         *)
(* The component is one object whose fields (configuration and the spool   *)
(* cache) are shared by every coroutine that runs on it: component_init    *)
(* and each run_checks call.  A coroutine is modelled as a task with a     *)
(* program position.  The positions listed in Suspended are the awaits of  *)
(* the source; one action is the code a task runs from one await to the    *)
(* next, which the asyncio loop never interrupts.  That code is written as *)
(* operators on a machine state (the task's frame and the cache), one per  *)
(* stretch of the source, chained by Run until the next await.             *)
(***************************************************************************)
EXTENDS Integers, Sequences, FiniteSets, TLC

\* ------------------------------------------------------------------ bounds
\* Largest number of filaments (tools) a print's metadata lists.
MaxTools == 2

\* ------------------------------------------------------- optional values
\* Python's None / a present value, kept type-uniform: <<>> and <<v>>.
None == <<>>
Some(v) == <<v>>
IsNone(o) == o = <<>>
Val(o) == o[1]

\* --------------------------------------------------------------- strings
\* A string is a sequence of one-character strings, so that str.strip()
\* and str.lower() are computed rather than assumed.
UpperChars == <<"A", "B", "D", "E", "L", "P", "R", "S", "U">>
LowerChars == <<"a", "b", "d", "e", "l", "p", "r", "s", "u">>

lower_char(c) ==
    IF \E i \in 1..Len(UpperChars) : UpperChars[i] = c
    THEN LowerChars[CHOOSE i \in 1..Len(UpperChars) : UpperChars[i] = c]
    ELSE c

\* str.lower()
lower(str) == [i \in 1..Len(str) |-> lower_char(str[i])]

RECURSIVE lstrip(_)
lstrip(str) ==
    IF str # <<>> /\ Head(str) = " " THEN lstrip(Tail(str)) ELSE str

RECURSIVE rstrip(_)
rstrip(str) ==
    IF str # <<>> /\ str[Len(str)] = " "
    THEN rstrip(SubSeq(str, 1, Len(str) - 1))
    ELSE str

\* str.strip()
strip(str) == rstrip(lstrip(str))

\* The literals the model draws names and materials from.
S_PLA == <<"P", "L", "A">>
S_ABS == <<"A", "B", "S">>
S_pla_sp == <<" ", "p", "l", "a">>
S_Red == <<"R", "e", "d">>
S_RED_sp == <<"R", "E", "D", " ">>
S_Blue == <<"B", "l", "u", "e">>
S_Empty == <<>>

\* ------------------------------------------------------------- variables
VARIABLES
    \* AdditionalPrePrintChecks.__init__: components and configuration
    spoolman,                         \* self.spoolman is not None
    mmu_server,                       \* self.mmu_server is not None
    weight_margin,
    enable_weight_check,
    enable_material_check,
    enable_filament_name_check,
    material_mismatch_severity,
    filament_name_mismatch_severity,
    \* the spool cache shared by every coroutine of the component
    cached_spool_info,
    cached_spool_id,
    \* collaborators
    print_stats_filename,             \* klippy print_stats.filename
    metadata_storage,                 \* metadata_storage.get(filename)
    database_spool_id,                \* database item spoolman.spool_id
    mmu_backend_enabled,              \* mmu_server._init_mmu_backend()
    mmu_backend_config,               \* mmu_server.mmu_backend_config['mmu']
    spoolman_spools,                  \* Spoolman: spool id -> spool or none
    \* coroutines: component_init (task 0) and the run_checks sessions
    task

config_vars ==
    <<spoolman, mmu_server, weight_margin, enable_weight_check,
      enable_material_check, enable_filament_name_check,
      material_mismatch_severity, filament_name_mismatch_severity>>

cache_vars == <<cached_spool_info, cached_spool_id>>

env_vars ==
    <<print_stats_filename, metadata_storage, database_spool_id,
      mmu_backend_enabled, mmu_backend_config, spoolman_spools>>

vars == <<config_vars, cache_vars, env_vars, task>>

\* --------------------------------------------------------------- domains
\* Mismatch severity levels: 'error', 'warning', 'info', 'ignore'
Severities == {"error", "warning", "info", "ignore"}

\* weight_margin_grams values drawn by the model (5 is the default).
Margins == {2, 5}

\* Spool ids known to the model.
SpoolIds == {1, 2}

\* The weight in grams a slicer writes for a filament.
RequiredWeight == 80

\* A spool as Spoolman's GET /v1/spool/<id> returns it.
Spool(rw, material, name) ==
    [remaining_weight |-> rw,
     filament |-> [material |-> material, name |-> name]]

\* The component's task and the sessions.  Where sessions follow one
\* another without end, one frame serves them all.
InitTaskId == 0
Sessions == {1, 2}
Repeating == {1}
Tasks == {InitTaskId} \cup Sessions

\* ------------------------------------------------------ the environment
\* File metadata as metadata_storage.get(filename) returns it.  A job of n
\* filaments lists n weights; filament_type and filament_name list n
\* entries or lack the last one.  All filaments ask for the same material
\* and the same filament name.
Repeat(x, n) == [i \in 1..n |-> x]

\* The first filament needs RequiredWeight grams, each later one 3 g less.
FilamentWeights(n) ==
    [i \in 1..n |-> IF i = 1 THEN RequiredWeight ELSE RequiredWeight - 3]

RECURSIVE Sum(_)
Sum(weights) ==
    IF weights = <<>> THEN 0 ELSE weights[1] + Sum(Tail(weights))

JobMetadata(n, k) ==
    [filament_weight_total |->
        IF n = 0 THEN None ELSE Some(Sum(FilamentWeights(n))),
     filament_weights |-> FilamentWeights(n),
     filament_type |-> Repeat(S_pla_sp, k),
     filament_name |-> Repeat(S_Red, k)]

MetadataValues ==
    {None} \cup
    UNION { { Some(JobMetadata(n, k)) :
                k \in {j \in 0..MaxTools : j = n \/ j + 1 = n} } :
            n \in 0..MaxTools }

\* Spoolman's answers, by spool id: a spool, or None for a request that
\* fails (404, an error status, or an exception of the http client).
\* Spool 1 is the active spool and the spool of gate 0.
FirstSpools ==
    { Spool(Some(82), S_PLA, S_RED_sp),
      Spool(Some(82), S_ABS, S_Blue),
      Spool(None, S_PLA, S_RED_sp),
      Spool(Some(82), S_Empty, S_Empty) }

SecondSpools ==
    { Spool(Some(82), S_PLA, S_RED_sp),
      Spool(Some(82), S_ABS, S_Blue),
      Spool(None, S_PLA, S_RED_sp) }

Inventory(a, b) == [id \in SpoolIds |-> IF id = 1 THEN a ELSE b]

Optional(S) == {None} \cup { Some(x) : x \in S }

\* mmu_backend_config['mmu']: tool -> gate, gate -> spool id, gate -> group.
MmuConfig(ttg, gsi, esg) ==
    [ttg_map |-> ttg, gate_spool_id |-> gsi, endless_spool_groups |-> esg]

NoMmuConfig == MmuConfig(<<>>, <<>>, <<>>)

MmuConfigs ==
    { MmuConfig(<<0, 1>>, <<Some(1), Some(2)>>, <<0, 1>>),   \* one spool per tool
      MmuConfig(<<0, 1>>, <<None, Some(2)>>, <<0, 1>>),      \* gate 0 unassigned
      MmuConfig(<<0>>, <<Some(1), Some(2)>>, <<0, 1>>),      \* tool 1 unmapped
      MmuConfig(<<0, 1>>, <<Some(1), Some(1)>>, <<0, 1>>),   \* one spool, two gates
      MmuConfig(<<0, 1>>, <<Some(1), Some(2)>>, <<0, 0>>),   \* both gates one group
      MmuConfig(<<0, 1>>, <<Some(1)>>, <<0, 0>>) }           \* group, gate 1 beyond the list

\* ------------------------------------------------------------------ tasks
\* A coroutine's frame: program position, the locals of the functions on
\* its stack, and what it did so far in this call (msgs: what it sent to
\* the console; requests: the spools it asked Spoolman for and
\* for which tool; pauses: its
\* pause_print calls and whether one raised; results: what each iteration of the tool loop ended with;
\* entered_with: the cache as it was when the try block was entered;
\* inputs: what its collaborators answered where the answer is not fixed by
\* the environment).
IdleTask ==
    [pc |-> "idle", ret |-> "", outcome |-> "none",
     filename |-> None, is_mmu |-> FALSE, metadata |-> None,
     ttg_map |-> <<>>, gate_spool_id |-> <<>>, endless_spool_groups |-> <<>>,
     tool_index |-> 0, spool_id |-> None,
     required_weight |-> None, remaining_weight |-> None,
     group_pos |-> 0, spool_materials |-> {}, spool_material |-> None,
     weight_ok |-> TRUE, material_ok |-> TRUE, filament_name_ok |-> TRUE,
     all_ok |-> TRUE,
     msgs |-> <<>>, requests |-> <<>>, pauses |-> 0, pause_failed |-> FALSE,
     results |-> <<>>, entered_with |-> <<>>, inputs |-> <<>>]

\* The collaborators' state a session can meet.  Without an enabled MMU
\* backend there is no gate map and only the active spool is ever requested;
\* with one, both spools are.
World(mmu, enabled, cfg, fname, md, db, inv) ==
    [mmu_server |-> mmu, mmu_backend_enabled |-> enabled,
     mmu_backend_config |-> cfg, print_stats_filename |-> fname,
     metadata_storage |-> md, database_spool_id |-> db,
     spoolman_spools |-> inv]

\* Without a filename the session ends before anything else is read.
SingleWorlds ==
    { World(FALSE, FALSE, NoMmuConfig, Some("job.gcode"), md, db,
            Inventory(a, None)) :
        md \in MetadataValues, db \in {None, Some(1)},
        a \in Optional(FirstSpools) }
    \cup { World(FALSE, FALSE, NoMmuConfig, None, Some(JobMetadata(1, 1)),
                 Some(1), Inventory(Some(Spool(Some(82), S_PLA, S_RED_sp)), None)) }

\* An MMU backend that is configured and reports itself disabled.
DisabledMmuWorlds ==
    { World(TRUE, FALSE, NoMmuConfig, Some("job.gcode"),
            Some(JobMetadata(1, 1)), Some(1), Inventory(a, None)) :
        a \in Optional(FirstSpools) }

\* The spool ids a job of n tools can make check_mmu_tools request under a
\* gate map: those of the gates in the group of a tool's gate.
Requested(cfg, n) ==
    { id \in SpoolIds :
        \E i \in 0..(n - 1), g \in 0..(Len(cfg.gate_spool_id) - 1) :
           /\ i < Len(cfg.ttg_map)
           /\ cfg.gate_spool_id[g + 1] = Some(id)
           /\ cfg.endless_spool_groups[g + 1]
                 = cfg.endless_spool_groups[cfg.ttg_map[i + 1] + 1] }

\* An enabled MMU backend.  A spool that is never requested is left out of
\* the inventory.  Without metadata check_mmu_tools returns before it reads
\* the gate map.
MmuWorlds ==
    UNION { UNION { { World(TRUE, TRUE, cfg, Some("job.gcode"),
                            Some(JobMetadata(n, k)), Some(1), Inventory(a, b)) :
                        k \in {n - 1, n} \ {0},
                        a \in IF 1 \in Requested(cfg, n)
                              THEN Optional(FirstSpools) ELSE {None},
                        b \in IF 2 \in Requested(cfg, n)
                              THEN Optional(SecondSpools) ELSE {None} } :
                    n \in 1..MaxTools } :
            cfg \in MmuConfigs }
    \cup { World(TRUE, TRUE, CHOOSE cfg \in MmuConfigs : TRUE,
                 Some("job.gcode"), None, Some(1), Inventory(None, None)) }

Worlds == SingleWorlds \cup DisabledMmuWorlds \cup MmuWorlds

DefaultWorld ==
    World(FALSE, FALSE, NoMmuConfig, Some("job.gcode"),
          Some(JobMetadata(1, 1)), Some(1),
          Inventory(Some(Spool(Some(82), S_PLA, S_RED_sp)), None))

\* __init__ (lines 27-68).  A rule that is disabled keeps its default
\* severity and a disabled weight check the default margin: the code reads
\* neither unless the rule is enabled.  Without Spoolman nothing is read at
\* all, and one configuration stands for all.
Init ==
    /\ spoolman \in BOOLEAN
    /\ enable_weight_check \in IF spoolman THEN BOOLEAN ELSE {TRUE}
    /\ enable_material_check \in IF spoolman THEN BOOLEAN ELSE {TRUE}
    /\ enable_filament_name_check \in IF spoolman THEN BOOLEAN ELSE {FALSE}
    /\ weight_margin \in IF enable_weight_check /\ spoolman THEN Margins ELSE {5}
    /\ material_mismatch_severity \in
          IF enable_material_check /\ spoolman THEN Severities ELSE {"warning"}
    /\ filament_name_mismatch_severity \in
          IF enable_filament_name_check THEN Severities ELSE {"info"}
    /\ cached_spool_info = None
    /\ cached_spool_id = None
    /\ \E w \in IF spoolman THEN Worlds ELSE {DefaultWorld} :
          /\ mmu_server = w.mmu_server
          /\ mmu_backend_enabled = w.mmu_backend_enabled
          /\ mmu_backend_config = w.mmu_backend_config
          /\ print_stats_filename = w.print_stats_filename
          /\ metadata_storage = w.metadata_storage
          /\ database_spool_id = w.database_spool_id
          /\ spoolman_spools = w.spoolman_spools
    /\ task = [p \in Tasks |-> IdleTask]

\* ---------------------------------------------------------------- helpers
\* The await points of the source: a task standing on one has yielded to
\* the event loop.  "idle" is a coroutine not yet called, "done" one that
\* has returned or raised.
Suspended ==
    {"idle", "done",
     "rc_log_skip", "rc_await_filename", "rc_log_mode", "rc_log_passed",
     "rc_log_failed", "rc_await_pause",
     "is_await_db", "is_await_fetch",
     "cpw_log_true", "cpw_log_false", "cfn_log_true", "cfn_log_mismatch",
     "mmu_log_nometa", "mmu_await_refresh", "mmu_log_continue",
     "mmu_await_fetch", "mmu_await_wfetch", "mmu_log_weight",
     "mmu_await_mfetch", "mmu_log_material", "mmu_log_name"}

\* The machine state a stretch of code works on: the running task's frame t,
\* the two cache fields, and whether an exception has escaped to run_checks.
Machine(t, info, id) == [t |-> t, info |-> info, id |-> id, raised |-> FALSE]

Current(p) == Machine(task[p], cached_spool_info, cached_spool_id)

Goto(m, label) == [m EXCEPT !.t.pc = label]

Raise(m) == [m EXCEPT !.raised = TRUE]

\* A console message: _log_to_console(msg, severity).
Msg(severity, kind, tool, has, need, deficit) ==
    [severity |-> severity, kind |-> kind, tool |-> tool,
     has |-> has, need |-> need, deficit |-> deficit]

\* _log_to_console up to its await of run_gcode; the task resumes at label.
_log_to_console(m, kind, severity, label) ==
    [m EXCEPT !.t.msgs = Append(@, Msg(severity, kind, None, None, None, None)),
              !.t.pc = label]

\* The same for a message about the tool of the current iteration.
_log_tool(m, kind, severity, label) ==
    [m EXCEPT !.t.msgs = Append(@, Msg(severity, kind, Some(m.t.tool_index),
                                       None, None, None)),
              !.t.pc = label]

\* The "Weight Check FAILED" message (lines 229-233, 394-398).
_log_weight_failed(m, tool, has, need, short_by, label) ==
    [m EXCEPT !.t.msgs = Append(@, Msg("error", "weight_failed", tool,
                                       Some(has), Some(need), Some(short_by))),
              !.t.pc = label]

\* _fetch_spool_info: the http request for a spool id and what the function
\* returns for each response.
Response(status, body) == [status |-> status, body |-> body]

Responses(spool_id) ==
    IF spool_id \in SpoolIds /\ ~IsNone(spoolman_spools[spool_id])
    THEN { Response("ok", spoolman_spools[spool_id]) }
    ELSE { Response("404", None), Response("error", None),
           Response("exception", None) }

\* Variant of _fetch_spool_info that takes the body of an error response
\* for a record (lines 133-135 left out).
_fetch_spool_info_error_body(response) ==
    IF response.status = "404" THEN None
    ELSE IF response.status = "exception" THEN None
    ELSE IF response.status = "error"
    THEN Some(Spool(Some(0), <<>>, <<>>))
    ELSE response.body

_fetch_spool_info(response) ==
    IF response.status = "404" THEN None
    ELSE IF response.status = "error" THEN None
    ELSE IF response.status = "exception" THEN None
    ELSE response.body

\* The request for a spool is sent; the task awaits the response at label.
Request(m, spool_id, label) ==
    [m EXCEPT !.t.requests =
                 Append(@, [spool_id |-> spool_id,
                            tool |-> IF m.t.is_mmu THEN Some(m.t.tool_index)
                                     ELSE None]),
              !.t.pc = label]

\* _clear_spool_cache
_clear_spool_cache(m) == [m EXCEPT !.info = None, !.id = None]

\* Variant of _is_mmu_enabled that does not ask the backend.
_is_mmu_enabled_unasked == mmu_server

\* _is_mmu_enabled
_is_mmu_enabled == IF ~mmu_server THEN FALSE ELSE mmu_backend_enabled

\* ---------------------------------------------------------- _init_spool
\* The caller enters _init_spool (line 90 passed) and awaits database.get_item.
Call_init_spool(m, caller) ==
    [m EXCEPT !.t.pc = "is_await_db", !.t.ret = caller]

\* _init_spool returns result to its caller.  component_init drops it and
\* returns itself, and its frame is gone.
Return_init_spool(m, result) ==
    IF m.t.ret = "component_init"
    THEN [m EXCEPT !.t = [IdleTask EXCEPT !.pc = "done"]]
    ELSE [m EXCEPT !.t.spool_id = result,
                   !.t.pc = IF m.t.ret = "check_print_weight"
                            THEN "cpw_after_init"
                            ELSE "cfn_after_init"]

\* Variant of lines 95-106 without the cache test of lines 102-103.
_init_spool_item_uncached(m, item) ==
    IF IsNone(item) THEN Return_init_spool(m, None)
    ELSE Request([m EXCEPT !.t.spool_id = item], Val(item), "is_await_fetch")

\* _init_spool after database.get_item (lines 95-106)
_init_spool_item(m, item) ==
    IF IsNone(item) THEN Return_init_spool(m, None)
    ELSE IF m.id = item /\ ~IsNone(m.info) THEN Return_init_spool(m, item)
    ELSE Request([m EXCEPT !.t.spool_id = item], Val(item), "is_await_fetch")

\* _init_spool after _fetch_spool_info (lines 106-112)
_init_spool_info(m, info) ==
    IF IsNone(info)
    THEN Return_init_spool([m EXCEPT !.info = info, !.id = None], None)
    ELSE Return_init_spool([m EXCEPT !.info = info, !.id = m.t.spool_id],
                           m.t.spool_id)

\* --------------------------------------------------- check_print_weight
\* Variant of the comparison of lines 216-217 with > in place of >=.
sufficient_strict(remaining_weight, required_weight) ==
    remaining_weight > required_weight + weight_margin

\* lines 216-217
sufficient(remaining_weight, required_weight) ==
    remaining_weight >= required_weight + weight_margin

\* line 229
deficit(remaining_weight, required_weight) ==
    (required_weight + weight_margin) - remaining_weight

\* check_print_weight returns; run_checks calls the name check (lines 494-495).
Return_check_print_weight(m, result) ==
    [m EXCEPT !.t.weight_ok = result, !.t.pc = "cfn_enter"]

\* Variant of lines 187-191 that does not look at enable_weight_check.
check_print_weight_enter_unconditional(m) ==
    IF ~spoolman
    THEN Return_check_print_weight(m, TRUE)
    ELSE Call_init_spool(m, "check_print_weight")

\* check_print_weight is called (lines 187-191).
check_print_weight_enter(m) ==
    IF ~spoolman \/ ~enable_weight_check
    THEN Return_check_print_weight(m, TRUE)
    ELSE Call_init_spool(m, "check_print_weight")

\* check_print_weight after _init_spool (lines 192-234).  Reading the cache
\* when it holds None raises AttributeError.
check_print_weight(m) ==
    LET metadata == metadata_storage
        required_weight == Val(metadata).filament_weight_total
        remaining_weight == Val(m.info).remaining_weight
    IN
    IF IsNone(m.t.spool_id)
    THEN _log_to_console(m, "no_active_spool", "info", "cpw_log_true")
    ELSE IF IsNone(metadata)
    THEN _log_to_console(m, "no_metadata", "error", "cpw_log_true")
    ELSE IF IsNone(required_weight)
    THEN _log_to_console(m, "no_weight_data", "info", "cpw_log_true")
    ELSE IF IsNone(m.info)
    THEN Raise(m)
    ELSE IF IsNone(remaining_weight)
    THEN _log_to_console(m, "no_remaining_weight", "info", "cpw_log_true")
    ELSE LET m1 == [m EXCEPT !.t.required_weight = required_weight,
                             !.t.remaining_weight = remaining_weight] IN
         IF sufficient(Val(remaining_weight), Val(required_weight))
         THEN Return_check_print_weight(m1, TRUE)
         ELSE _log_weight_failed(m1, None, Val(remaining_weight),
                                 Val(required_weight),
                                 deficit(Val(remaining_weight),
                                         Val(required_weight)),
                                 "cpw_log_false")

\* --------------------------------------- check_filament_name_compliance
\* line 283, on the stripped names of lines 270-276
compliant(spool_filament_name, metadata_filament_name) ==
    lower(spool_filament_name) = lower(metadata_filament_name)

\* check_filament_name_compliance returns to run_checks (lines 495-496).
Return_check_filament_name_compliance(m, result) ==
    [m EXCEPT !.t.filament_name_ok = result, !.t.pc = "rc_verdict"]

\* check_filament_name_compliance is called (lines 246-250).
check_filament_name_compliance_enter(m) ==
    IF \/ ~spoolman
       \/ ~enable_filament_name_check
       \/ filament_name_mismatch_severity = "ignore"
    THEN Return_check_filament_name_compliance(m, TRUE)
    ELSE Call_init_spool(m, "check_filament_name_compliance")

\* check_filament_name_compliance after _init_spool (lines 251-293)
check_filament_name_compliance(m) ==
    LET metadata == metadata_storage
        metadata_filament_names == Val(metadata).filament_name
        metadata_filament_name == strip(metadata_filament_names[1])
        spool_filament_name == strip(Val(m.info).filament.name)
    IN
    IF IsNone(m.t.spool_id)
    THEN _log_to_console(m, "no_active_spool", "info", "cfn_log_true")
    ELSE IF IsNone(metadata)
    THEN _log_to_console(m, "no_metadata", "error", "cfn_log_true")
    ELSE IF metadata_filament_names = <<>>
    THEN _log_to_console(m, "no_name_data", "info", "cfn_log_true")
    ELSE IF IsNone(m.info)
    THEN Raise(m)
    ELSE IF spool_filament_name = <<>>
    THEN _log_to_console(m, "no_spool_name", "info", "cfn_log_true")
    ELSE IF compliant(spool_filament_name, metadata_filament_name)
    THEN Return_check_filament_name_compliance(m, TRUE)
    ELSE _log_to_console(m, "name_failed", filament_name_mismatch_severity,
                         "cfn_log_mismatch")

\* line 293
mismatch_result == filament_name_mismatch_severity # "error"

\* ----------------------------------------------------------- run_checks
\* The verdict and its message (lines 496-501).
run_checks_verdict(m) ==
    LET all_ok == IF m.t.is_mmu THEN m.t.all_ok
                  ELSE m.t.weight_ok /\ m.t.filament_name_ok
        m1 == [m EXCEPT !.t.all_ok = all_ok] IN
    IF all_ok
    THEN _log_to_console(m1, "all_passed", "info", "rc_log_passed")
    ELSE _log_to_console(m1, "checks_failed", "error", "rc_log_failed")

\* The finally clause (lines 507-509) and the end of run_checks.
run_checks_finally(m, outcome) ==
    [_clear_spool_cache(m) EXCEPT !.t.pc = "done", !.t.outcome = outcome]

\* ------------------------------------------------------ check_mmu_tools
\* What one iteration of the tool loop (lines 339-456) ended with.
ToolResult(t, status) ==
    [tool |-> t.tool_index, status |-> status, spool_id |-> t.spool_id,
     weight_ok |-> t.weight_ok, material_ok |-> t.material_ok,
     filament_name_ok |-> t.filament_name_ok,
     required_weight |-> t.required_weight,
     remaining_weight |-> t.remaining_weight,
     spool_material |-> t.spool_material]

\* The next iteration: the locals of the loop body start afresh.
NextTool(m, status) ==
    [m EXCEPT !.t.results = Append(@, ToolResult(m.t, status)),
              !.t.tool_index = @ + 1, !.t.pc = "mmu_loop",
              !.t.spool_id = None, !.t.required_weight = None,
              !.t.remaining_weight = None, !.t.group_pos = 0,
              !.t.spool_materials = {}, !.t.spool_material = None,
              !.t.weight_ok = TRUE, !.t.material_ok = TRUE,
              !.t.filament_name_ok = TRUE]

\* line 344
gate_number(t) == t.ttg_map[t.tool_index + 1]

\* line 346: the gates of the group of the tool's gate, in gate order
RECURSIVE gates_of_group(_, _, _)
gates_of_group(endless_spool_groups, sg, g) ==
    IF g >= Len(endless_spool_groups) THEN <<>>
    ELSE (IF endless_spool_groups[g + 1] = sg THEN <<g>> ELSE <<>>)
         \o gates_of_group(endless_spool_groups, sg, g + 1)

group(t) ==
    gates_of_group(t.endless_spool_groups,
                   t.endless_spool_groups[gate_number(t) + 1], 0)

\* lines 349, 369, 407
spool_of_gate(t, g) ==
    IF g < Len(t.gate_spool_id) THEN t.gate_spool_id[g + 1] ELSE None

\* The spool the group loop is about to fetch, or has fetched.
spool_id_g(t) == spool_of_gate(t, group(t)[t.group_pos])

\* check_mmu_tools returns to run_checks (line 491).
Return_check_mmu_tools(m, result) ==
    [m EXCEPT !.t.all_ok = result, !.t.pc = "rc_verdict"]

\* check_mmu_tools is called (lines 305-324).
check_mmu_tools_enter(m) ==
    LET metadata == metadata_storage IN
    IF ~spoolman \/ ~mmu_server
    THEN Return_check_mmu_tools(m, TRUE)
    ELSE IF IsNone(metadata)
    THEN _log_to_console(m, "no_metadata", "error", "mmu_log_nometa")
    ELSE [m EXCEPT !.t.metadata = metadata, !.t.pc = "mmu_await_refresh"]

\* refresh_cache has returned: the maps are read (lines 328-336).
check_mmu_tools_maps(m) ==
    [m EXCEPT !.t.ttg_map = mmu_backend_config.ttg_map,
              !.t.gate_spool_id = mmu_backend_config.gate_spool_id,
              !.t.endless_spool_groups = mmu_backend_config.endless_spool_groups,
              !.t.all_ok = TRUE, !.t.tool_index = 0, !.t.pc = "mmu_loop"]

\* The head of the tool loop up to the fetch (lines 339-355), or the return
\* (line 457).  A gate without a group entry raises IndexError at line 346.
check_mmu_tools_loop(m) ==
    LET t == m.t
        filament_weights == Val(t.metadata).filament_weights
        spool_id == spool_of_gate(t, gate_number(t))
    IN
    IF t.tool_index >= Len(filament_weights)
    THEN Return_check_mmu_tools(m, t.all_ok)
    ELSE IF t.tool_index >= Len(t.ttg_map)
    THEN NextTool(m, "unmapped")
    ELSE IF gate_number(t) >= Len(t.endless_spool_groups)
    THEN Raise(m)
    ELSE IF IsNone(spool_id)
    THEN _log_tool(m, "no_spool_assigned", "warning", "mmu_log_continue")
    ELSE Request([m EXCEPT !.t.spool_id = spool_id], Val(spool_id),
                 "mmu_await_fetch")

\* Variant of the continue of lines 352 and 359 that counts a tool without
\* a spool as a failure.
check_mmu_tools_continue_strict(m) ==
    NextTool([m EXCEPT !.t.all_ok = FALSE],
             IF IsNone(m.t.spool_id) THEN "unassigned" ELSE "fetch_failed")

\* continue, after the message of line 351 or 357
check_mmu_tools_continue(m) ==
    NextTool(m, IF IsNone(m.t.spool_id) THEN "unassigned" ELSE "fetch_failed")

\* Variant of lines 355-359 that skips a tool whose spool cannot be fetched
\* without failing it.
check_mmu_tools_info_lenient(m, info) ==
    IF IsNone(info)
    THEN _log_tool([m EXCEPT !.info = info],
                   "cannot_fetch", "error", "mmu_log_continue")
    ELSE [m EXCEPT !.info = info, !.t.pc = "mmu_weight"]

\* The tool's spool has been fetched (lines 355-359).
check_mmu_tools_info(m, info) ==
    IF IsNone(info)
    THEN _log_tool([m EXCEPT !.info = info, !.t.all_ok = FALSE],
                   "cannot_fetch", "error", "mmu_log_continue")
    ELSE [m EXCEPT !.info = info, !.t.pc = "mmu_weight"]

\* lines 382-383
mmu_weight_ok(remaining_weight, required_weight) ==
    remaining_weight >= required_weight + weight_margin

\* line 394
mmu_deficit(remaining_weight, required_weight) ==
    (required_weight + weight_margin) - remaining_weight

\* The weight check begins (lines 362-367, 380).  Reading the cache when it
\* holds None raises AttributeError.
check_mmu_tools_weight(m) ==
    LET required_weight ==
            Some(Val(m.t.metadata).filament_weights[m.t.tool_index + 1])
        m1 == [m EXCEPT !.t.required_weight = required_weight,
                        !.t.weight_ok = TRUE]
    IN
    IF ~(enable_weight_check /\ ~IsNone(required_weight))
    THEN Goto(m1, "mmu_material")
    ELSE IF Len(group(m.t)) > 1
    THEN [m1 EXCEPT !.t.remaining_weight = Some(0), !.t.group_pos = 1,
                    !.t.pc = "mmu_wgroup"]
    ELSE IF IsNone(m.info)
    THEN Raise(m1)
    ELSE [m1 EXCEPT !.t.remaining_weight = Val(m.info).remaining_weight,
                    !.t.pc = "mmu_wcompare"]

\* The loop over the gates of the group (lines 368-372), and after it the
\* store of the sum into the cached spool (line 378), which raises TypeError
\* when the cache holds None.
check_mmu_tools_wgroup(m) ==
    IF m.t.group_pos > Len(group(m.t))
    THEN IF IsNone(m.info)
         THEN Raise(m)
         ELSE [m EXCEPT !.info = Some([Val(m.info) EXCEPT
                                          !.remaining_weight = m.t.remaining_weight]),
                        !.t.pc = "mmu_wcompare"]
    ELSE IF IsNone(spool_id_g(m.t))
    THEN [m EXCEPT !.t.group_pos = @ + 1]
    ELSE Request(m, Val(spool_id_g(m.t)), "mmu_await_wfetch")

\* Variant of lines 372-377 that keeps the weight of the spool fetched last
\* instead of adding it.
check_mmu_tools_winfo_last(m, spool_info) ==
    LET rw == Val(spool_info).remaining_weight IN
    IF IsNone(spool_info) \/ IsNone(rw)
    THEN [m EXCEPT !.t.group_pos = @ + 1, !.t.pc = "mmu_wgroup"]
    ELSE [m EXCEPT !.t.remaining_weight = rw,
                   !.t.group_pos = @ + 1, !.t.pc = "mmu_wgroup"]

\* A spool of the group has been fetched (lines 372-377).
check_mmu_tools_winfo(m, spool_info) ==
    LET rw == Val(spool_info).remaining_weight IN
    IF IsNone(spool_info) \/ IsNone(rw)
    THEN [m EXCEPT !.t.group_pos = @ + 1, !.t.pc = "mmu_wgroup"]
    ELSE [m EXCEPT !.t.remaining_weight = Some(Val(@) + Val(rw)),
                   !.t.group_pos = @ + 1, !.t.pc = "mmu_wgroup"]

\* The comparison (lines 382-399).  A remaining weight of None raises
\* TypeError at line 383.
check_mmu_tools_wcompare(m) ==
    LET rw == Val(m.t.remaining_weight)
        rq == Val(m.t.required_weight) IN
    IF IsNone(m.t.remaining_weight) \/ IsNone(m.info)
    THEN Raise(m)
    ELSE IF mmu_weight_ok(rw, rq)
    THEN [m EXCEPT !.t.weight_ok = TRUE, !.t.pc = "mmu_material"]
    ELSE _log_weight_failed([m EXCEPT !.t.weight_ok = FALSE],
                            Some(m.t.tool_index), rw, rq, mmu_deficit(rw, rq),
                            "mmu_log_weight")

\* line 399
check_mmu_tools_wfailed(m) ==
    [m EXCEPT !.t.weight_ok = FALSE, !.t.pc = "mmu_material"]

\* line 426, on the stripped materials of lines 403 and 413-421
material_matches(spool_material, metadata_material) ==
    lower(spool_material) = lower(metadata_material)

\* line 445, on the stripped names of lines 439-440
name_matches(spool_filament_name, metadata_filament_name) ==
    lower(spool_filament_name) = lower(metadata_filament_name)

\* lines 434-435 and 453-454: what the verdict of a mismatching check is
\* after its message, given what the comparison left in it.
after_mismatch(ok, severity) == IF severity = "error" THEN FALSE ELSE ok

\* The material check begins (lines 401-404, 421).
check_mmu_tools_material(m) ==
    LET filament_types == Val(m.t.metadata).filament_type
        m1 == [m EXCEPT !.t.material_ok = TRUE] IN
    IF ~(enable_material_check /\ m.t.tool_index < Len(filament_types))
    THEN Goto(m1, "mmu_name")
    ELSE IF Len(group(m.t)) > 1
    THEN [m1 EXCEPT !.t.spool_materials = {}, !.t.group_pos = 1,
                    !.t.pc = "mmu_mgroup"]
    ELSE IF IsNone(m.info)
    THEN Raise(m1)
    ELSE [m1 EXCEPT !.t.spool_material = Some(strip(Val(m.info).filament.material)),
                    !.t.pc = "mmu_mcompare"]

\* Variant of lines 416-419 that settles on one of the group's materials
\* when they differ.
check_mmu_tools_mgroup_any(m) ==
    IF m.t.group_pos > Len(group(m.t))
    THEN [m EXCEPT !.t.spool_material =
                       IF m.t.spool_materials # {}
                       THEN Some(CHOOSE sm \in m.t.spool_materials : TRUE)
                       ELSE None,
                   !.t.pc = "mmu_mcompare"]
    ELSE IF IsNone(spool_id_g(m.t))
    THEN [m EXCEPT !.t.group_pos = @ + 1]
    ELSE Request(m, Val(spool_id_g(m.t)), "mmu_await_mfetch")

\* The loop over the gates of the group (lines 406-410) and the consensus
\* after it (lines 416-419).
check_mmu_tools_mgroup(m) ==
    IF m.t.group_pos > Len(group(m.t))
    THEN [m EXCEPT !.t.spool_material =
                       IF Cardinality(m.t.spool_materials) = 1
                       THEN Some(CHOOSE sm \in m.t.spool_materials : TRUE)
                       ELSE None,
                   !.t.pc = "mmu_mcompare"]
    ELSE IF IsNone(spool_id_g(m.t))
    THEN [m EXCEPT !.t.group_pos = @ + 1]
    ELSE Request(m, Val(spool_id_g(m.t)), "mmu_await_mfetch")

\* A spool of the group has been fetched (lines 410-415).
check_mmu_tools_minfo(m, spool_info) ==
    LET sm == strip(Val(spool_info).filament.material) IN
    IF IsNone(spool_info) \/ sm = <<>>
    THEN [m EXCEPT !.t.group_pos = @ + 1, !.t.pc = "mmu_mgroup"]
    ELSE [m EXCEPT !.t.spool_materials = @ \cup {lower(sm)},
                   !.t.group_pos = @ + 1, !.t.pc = "mmu_mgroup"]

\* The comparison (lines 423-433)
check_mmu_tools_mcompare(m) ==
    LET filament_types == Val(m.t.metadata).filament_type
        metadata_material == strip(filament_types[m.t.tool_index + 1])
        spool_material == m.t.spool_material IN
    IF IsNone(spool_material) \/ spool_material = Some(<<>>)
    THEN _log_tool(m, "no_material_data", "info", "mmu_log_material")
    ELSE IF material_matches(Val(spool_material), metadata_material)
    THEN [m EXCEPT !.t.material_ok = TRUE, !.t.pc = "mmu_name"]
    ELSE _log_tool([m EXCEPT !.t.material_ok = FALSE], "material_failed",
                   material_mismatch_severity, "mmu_log_material")

\* After the message of line 424 or 433 (lines 434-435)
check_mmu_tools_mlogged(m) ==
    IF m.t.msgs[Len(m.t.msgs)].kind = "no_material_data"
    THEN Goto(m, "mmu_name")
    ELSE [m EXCEPT !.t.material_ok = after_mismatch(@, material_mismatch_severity),
                   !.t.pc = "mmu_name"]

\* lines 455-456, and on to the next tool
end_of_tool(m) ==
    LET t == m.t IN
    NextTool([m EXCEPT !.t.all_ok =
                 IF ~(t.weight_ok /\ t.material_ok /\ t.filament_name_ok)
                 THEN FALSE ELSE @],
             "evaluated")

\* The name check (lines 437-452).  Reading the cache when it holds None
\* raises AttributeError.
check_mmu_tools_name(m) ==
    LET filament_names == Val(m.t.metadata).filament_name
        metadata_filament_name == strip(filament_names[m.t.tool_index + 1])
        spool_filament_name == strip(Val(m.info).filament.name)
        m1 == [m EXCEPT !.t.filament_name_ok = TRUE] IN
    IF ~(enable_filament_name_check /\ m.t.tool_index < Len(filament_names))
    THEN end_of_tool(m1)
    ELSE IF IsNone(m.info)
    THEN Raise(m1)
    ELSE IF spool_filament_name = <<>>
    THEN _log_tool(m1, "no_name_data", "info", "mmu_log_name")
    ELSE IF name_matches(spool_filament_name, metadata_filament_name)
    THEN end_of_tool(m1)
    ELSE _log_tool([m1 EXCEPT !.t.filament_name_ok = FALSE], "name_failed",
                   filament_name_mismatch_severity, "mmu_log_name")

\* After the message of line 443 or 452 (lines 453-456)
check_mmu_tools_nlogged(m) ==
    IF m.t.msgs[Len(m.t.msgs)].kind = "no_name_data"
    THEN end_of_tool(m)
    ELSE end_of_tool([m EXCEPT !.t.filament_name_ok =
                         after_mismatch(@, filament_name_mismatch_severity)])

\* ------------------------------------------------------- running a task
\* The code that stands at each position that is not an await point.
Stage(m) ==
    CASE m.t.pc = "cpw_enter"      -> check_print_weight_enter(m)
      [] m.t.pc = "cpw_after_init" -> check_print_weight(m)
      [] m.t.pc = "cfn_enter"      -> check_filament_name_compliance_enter(m)
      [] m.t.pc = "cfn_after_init" -> check_filament_name_compliance(m)
      [] m.t.pc = "rc_verdict"     -> run_checks_verdict(m)
      [] m.t.pc = "mmu_enter"      -> check_mmu_tools_enter(m)
      [] m.t.pc = "mmu_loop"       -> check_mmu_tools_loop(m)
      [] m.t.pc = "mmu_weight"     -> check_mmu_tools_weight(m)
      [] m.t.pc = "mmu_wgroup"     -> check_mmu_tools_wgroup(m)
      [] m.t.pc = "mmu_wcompare"   -> check_mmu_tools_wcompare(m)
      [] m.t.pc = "mmu_material"   -> check_mmu_tools_material(m)
      [] m.t.pc = "mmu_mgroup"     -> check_mmu_tools_mgroup(m)
      [] m.t.pc = "mmu_mcompare"   -> check_mmu_tools_mcompare(m)
      [] m.t.pc = "mmu_name"       -> check_mmu_tools_name(m)

\* A task runs without interruption until its next await, its return, or
\* an exception.
RECURSIVE Run(_)
Run(m) ==
    IF m.raised \/ m.t.pc \in Suspended THEN m ELSE Run(Stage(m))

\* The event loop gets control back: the frame and the cache are as the
\* task left them.  An exception inside the try of run_checks runs the
\* finally clause and ends the task; inside component_init it ends the task.
Commit(p, m) ==
    LET r == Run(m)
        e == IF ~r.raised THEN r
             ELSE IF p = InitTaskId
             THEN [r EXCEPT !.t = [IdleTask EXCEPT !.pc = "done"]]
             ELSE run_checks_finally(r, "exception") IN
    /\ task' = [task EXCEPT ![p] = e.t]
    /\ cached_spool_info' = e.info
    /\ cached_spool_id' = e.id
    /\ UNCHANGED <<config_vars, env_vars>>

At(p, label) == task[p].pc = label

\* ----------------------------------------------------------- the actions
\* component_init (lines 70-74): up to the first await of _init_spool.
component_init ==
    /\ At(InitTaskId, "idle")
    /\ IF spoolman
       THEN Commit(InitTaskId, Call_init_spool(Current(InitTaskId), "component_init"))
       ELSE Commit(InitTaskId, Goto(Current(InitTaskId), "done"))

\* database.get_item answers (lines 91-95); if it raises, _init_spool
\* returns None (lines 113-115), as it does for an item of None.
init_spool_get_item(p) ==
    /\ At(p, "is_await_db")
    /\ \E item \in {database_spool_id, None} :
          Commit(p, _init_spool_item(
                        [Current(p) EXCEPT !.t.inputs = Append(@, item)], item))

\* The spool request of _init_spool is answered (line 106).
init_spool_fetched(p) ==
    /\ At(p, "is_await_fetch")
    /\ \E response \in Responses(Val(task[p].spool_id)) :
          Commit(p, _init_spool_info(Current(p), _fetch_spool_info(response)))

\* Sessions are started one after another, once the component is
\* initialised.
Serial(p) ==
    /\ At(InitTaskId, "done")
    /\ \A q \in Sessions \ {p} : task[q].pc \in {"idle", "done"}

\* run_checks up to its first await (lines 466-473), in a fresh frame.
run_checks_begin(p) ==
    LET m == Machine(IdleTask, cached_spool_info, cached_spool_id) IN
    IF ~spoolman
    THEN Commit(p, _log_to_console(m, "skipped_no_spoolman", "warning",
                                   "rc_log_skip"))
    ELSE Commit(p, Goto(m, "rc_await_filename"))

\* run_checks is called, any number of times, each call after the one
\* before it has ended.
run_checks(p) ==
    /\ task[p].pc \in {"idle", "done"}
    /\ Serial(p)
    /\ run_checks_begin(p)

\* run_checks is called once for each session, each call after the one
\* before it has ended; the frames of the ended sessions are kept.
run_checks_once(p) ==
    /\ At(p, "idle")
    /\ Serial(p)
    /\ \A q \in Sessions : q < p => task[q].pc = "done"
    /\ run_checks_begin(p)

\* return at line 470 or 477
run_checks_skipped(p) ==
    /\ At(p, "rc_log_skip")
    /\ Commit(p, [Current(p) EXCEPT !.t.pc = "done", !.t.outcome = "skipped"])

\* Variant of lines 473-483 that goes on without a filename.
run_checks_filename_unchecked(p) ==
    /\ At(p, "rc_await_filename")
    /\ \E filename \in {print_stats_filename, None} :
          Commit(p, _log_to_console(
                        [Current(p) EXCEPT !.t.inputs = Append(@, filename),
                                           !.t.filename = filename,
                                           !.t.is_mmu = _is_mmu_enabled],
                        "running", "info", "rc_log_mode"))

\* _get_current_filename answers (lines 473-483); None stands for an empty
\* filename and for a failed query (lines 151-154).
run_checks_filename(p) ==
    /\ At(p, "rc_await_filename")
    /\ \E filename \in {print_stats_filename, None} :
          LET m == [Current(p) EXCEPT !.t.inputs = Append(@, filename)] IN
          IF IsNone(filename)
          THEN Commit(p, _log_to_console(m, "skipped_no_filename",
                                         "warning", "rc_log_skip"))
          ELSE Commit(p, _log_to_console(
                            [m EXCEPT !.t.filename = filename,
                                      !.t.is_mmu = _is_mmu_enabled],
                            "running", "info", "rc_log_mode"))

\* Variant of lines 486-495 without the _clear_spool_cache() of line 486.
run_checks_try_uncleared(p) ==
    /\ At(p, "rc_log_mode")
    /\ LET m == Current(p) IN
       Commit(p, [m EXCEPT !.t.entered_with = <<m.info, m.id>>,
                           !.t.pc = IF m.t.is_mmu THEN "mmu_enter"
                                    ELSE "cpw_enter"])

\* The cache is cleared and the try block entered (lines 486-495).
run_checks_try(p) ==
    /\ At(p, "rc_log_mode")
    /\ LET m == _clear_spool_cache(Current(p)) IN
       Commit(p, [m EXCEPT !.t.entered_with = <<m.info, m.id>>,
                           !.t.pc = IF m.t.is_mmu THEN "mmu_enter"
                                    ELSE "cpw_enter"])

\* Variant of lines 498-509 that calls pause_print after either message.
run_checks_passed_pausing(p) ==
    /\ At(p, "rc_log_passed")
    /\ Commit(p, run_checks_finally([Current(p) EXCEPT !.t.pauses = @ + 1],
                                    "pass"))

\* After the message of line 499: finally, and the session is over.
run_checks_passed(p) ==
    /\ At(p, "rc_log_passed")
    /\ Commit(p, run_checks_finally(Current(p), "pass"))

\* After the message of line 501: pause_print is called (line 504).
run_checks_pause(p) ==
    /\ At(p, "rc_log_failed")
    /\ Commit(p, [Current(p) EXCEPT !.t.pauses = @ + 1,
                                    !.t.pc = "rc_await_pause"])

\* Variant of lines 503-509 without the except clause: an exception of
\* pause_print leaves run_checks through the finally clause.
run_checks_paused_uncaught(p) ==
    /\ At(p, "rc_await_pause")
    /\ \E pause_raised \in BOOLEAN :
          Commit(p, run_checks_finally(
                        [Current(p) EXCEPT
                            !.t.pause_failed = pause_raised,
                            !.t.inputs = Append(@, IF pause_raised
                                                   THEN <<"raised">>
                                                   ELSE <<"paused">>)],
                        IF pause_raised THEN "exception" ELSE "fail"))

\* pause_print returns or raises (lines 504-509).
run_checks_paused(p) ==
    /\ At(p, "rc_await_pause")
    /\ \E pause_raised \in BOOLEAN :
          Commit(p, run_checks_finally(
                        [Current(p) EXCEPT
                            !.t.pause_failed = pause_raised,
                            !.t.inputs = Append(@, IF pause_raised
                                                   THEN <<"raised">>
                                                   ELSE <<"paused">>)],
                        "fail"))

\* check_print_weight returns True after a message (lines 195-214).
check_print_weight_skipped(p) ==
    /\ At(p, "cpw_log_true")
    /\ Commit(p, Return_check_print_weight(Current(p), TRUE))

\* check_print_weight returns False (line 234).
check_print_weight_failed(p) ==
    /\ At(p, "cpw_log_false")
    /\ Commit(p, Return_check_print_weight(Current(p), FALSE))

\* check_filament_name_compliance returns True after a message.
check_filament_name_skipped(p) ==
    /\ At(p, "cfn_log_true")
    /\ Commit(p, Return_check_filament_name_compliance(Current(p), TRUE))

\* check_filament_name_compliance returns after a mismatch (line 293).
check_filament_name_mismatch(p) ==
    /\ At(p, "cfn_log_mismatch")
    /\ Commit(p, Return_check_filament_name_compliance(Current(p),
                                                       mismatch_result))

\* check_mmu_tools returns True without metadata (line 313).
check_mmu_tools_nometa(p) ==
    /\ At(p, "mmu_log_nometa")
    /\ Commit(p, Return_check_mmu_tools(Current(p), TRUE))

\* refresh_cache returns (line 324).
check_mmu_tools_refreshed(p) ==
    /\ At(p, "mmu_await_refresh")
    /\ Commit(p, check_mmu_tools_maps(Current(p)))

\* continue at line 352 or 359
check_mmu_tools_skip_tool(p) ==
    /\ At(p, "mmu_log_continue")
    /\ Commit(p, check_mmu_tools_continue(Current(p)))

\* The request of line 355 is answered.
check_mmu_tools_fetched(p) ==
    /\ At(p, "mmu_await_fetch")
    /\ \E response \in Responses(Val(task[p].spool_id)) :
          Commit(p, check_mmu_tools_info(Current(p), _fetch_spool_info(response)))

\* The request of line 372 is answered.
check_mmu_tools_wfetched(p) ==
    /\ At(p, "mmu_await_wfetch")
    /\ \E response \in Responses(Val(spool_id_g(task[p]))) :
          Commit(p, check_mmu_tools_winfo(Current(p), _fetch_spool_info(response)))

\* After the message of line 398.
check_mmu_tools_wlogged(p) ==
    /\ At(p, "mmu_log_weight")
    /\ Commit(p, check_mmu_tools_wfailed(Current(p)))

\* The request of line 410 is answered.
check_mmu_tools_mfetched(p) ==
    /\ At(p, "mmu_await_mfetch")
    /\ \E response \in Responses(Val(spool_id_g(task[p]))) :
          Commit(p, check_mmu_tools_minfo(Current(p), _fetch_spool_info(response)))

\* After the message of line 424 or 433.
check_mmu_tools_material_logged(p) ==
    /\ At(p, "mmu_log_material")
    /\ Commit(p, check_mmu_tools_mlogged(Current(p)))

\* After the message of line 443 or 452.
check_mmu_tools_name_logged(p) ==
    /\ At(p, "mmu_log_name")
    /\ Commit(p, check_mmu_tools_nlogged(Current(p)))

\* Every step but the call of run_checks.
Steps ==
    \/ component_init
    \/ \E p \in Tasks : init_spool_get_item(p)
    \/ \E p \in Tasks : init_spool_fetched(p)
    \/ \E p \in Sessions : run_checks_skipped(p)
    \/ \E p \in Sessions : run_checks_filename(p)
    \/ \E p \in Sessions : run_checks_try(p)
    \/ \E p \in Sessions : run_checks_passed(p)
    \/ \E p \in Sessions : run_checks_pause(p)
    \/ \E p \in Sessions : run_checks_paused(p)
    \/ \E p \in Sessions : check_print_weight_skipped(p)
    \/ \E p \in Sessions : check_print_weight_failed(p)
    \/ \E p \in Sessions : check_filament_name_skipped(p)
    \/ \E p \in Sessions : check_filament_name_mismatch(p)
    \/ \E p \in Sessions : check_mmu_tools_nometa(p)
    \/ \E p \in Sessions : check_mmu_tools_refreshed(p)
    \/ \E p \in Sessions : check_mmu_tools_skip_tool(p)
    \/ \E p \in Sessions : check_mmu_tools_fetched(p)
    \/ \E p \in Sessions : check_mmu_tools_wfetched(p)
    \/ \E p \in Sessions : check_mmu_tools_wlogged(p)
    \/ \E p \in Sessions : check_mmu_tools_mfetched(p)
    \/ \E p \in Sessions : check_mmu_tools_material_logged(p)
    \/ \E p \in Sessions : check_mmu_tools_name_logged(p)

Next ==
    \/ Steps
    \/ \E p \in Repeating : run_checks(p)

Spec == Init /\ [][Next]_vars

\* Two sessions, one after the other, in an environment that does not
\* change.
NextTwice ==
    \/ Steps
    \/ \E p \in Sessions : run_checks_once(p)

\* The configurations under which two sessions are compared: each
\* severity is the default or error.
InitTwice ==
    /\ Init
    /\ material_mismatch_severity \in {"warning", "error"}
    /\ filament_name_mismatch_severity \in {"info", "error"}

SpecTwice == InitTwice /\ [][NextTwice]_vars

\* run_checks is called while another session may be under way: the remote
\* method is a coroutine of its own for every call.
run_checks_overlapping(p) ==
    /\ At(p, "idle")
    /\ At(InitTaskId, "done")
    /\ run_checks_begin(p)

\* Two sessions that may overlap, interleaving at their awaits.
NextOverlap ==
    \/ Steps
    \/ \E p \in Sessions : run_checks_overlapping(p)

\* The configurations and environments under which overlapping sessions
\* are examined: every check enabled with severity error, and spools that
\* report their weight, so that a session running alone ends with a verdict.
InitOverlap ==
    /\ Init
    /\ spoolman
    /\ enable_weight_check /\ enable_material_check
    /\ enable_filament_name_check
    /\ material_mismatch_severity = "error"
    /\ filament_name_mismatch_severity = "error"
    /\ database_spool_id = Some(1)
    /\ metadata_storage \in {None, Some(JobMetadata(1, 1)),
                              Some(JobMetadata(MaxTools, MaxTools))}
    /\ spoolman_spools[1] \in {None, Some(Spool(Some(82), S_PLA, S_RED_sp)),
                                Some(Spool(Some(82), S_ABS, S_Blue))}
    /\ spoolman_spools[2] \in {None, Some(Spool(Some(82), S_PLA, S_RED_sp)),
                                Some(Spool(Some(82), S_ABS, S_Blue))}

SpecOverlap == InitOverlap /\ [][NextOverlap]_vars

\* run_checks is called with nothing known about the other tasks: neither
\* component_init nor run_checks holds a lock or tests a flag, so a call can
\* find component_init or another session suspended at an await.
run_checks_unordered(p) ==
    /\ At(p, "idle")
    /\ run_checks_begin(p)

\* component_init and two sessions in any order and interleaving.
NextUnordered ==
    \/ Steps
    \/ \E p \in Sessions : run_checks_unordered(p)

SpecUnordered == InitOverlap /\ [][NextUnordered]_vars

\* ============================================================ properties
\* A session has ended: run_checks has returned or raised.
Ended(p) == task[p].pc = "done" /\ task[p].outcome # "none"

CacheEmpty == cached_spool_info = None /\ cached_spool_id = None

\* The positions of the messages of a session that satisfy a condition.
ErrorMsgs(p) ==
    { i \in 1..Len(task[p].msgs) : task[p].msgs[i].severity = "error" }

MsgsOfKind(p, kind) ==
    { i \in 1..Len(task[p].msgs) : task[p].msgs[i].kind = kind }

\* The number of tools the job of a multi-tool session lists.
ToolCount(p) == Len(Val(task[p].metadata).filament_weights)

\* The verdict of a session has been decided.
Decided(p) ==
    task[p].pc \in {"rc_log_passed", "rc_log_failed", "rc_await_pause"}
    \/ (Ended(p) /\ task[p].outcome \in {"pass", "fail"})

\* ------------------------------------------------------------------- C1
\* C1: for every session, whatever its outcome (pass, fail, skipped or an
\* exception), the cache is empty when the try block is entered and empty
\* when the session has ended, also when component_init or an earlier
\* session had filled it.
C1_CacheEmptyAroundSession ==
    \A p \in Sessions :
       /\ task[p].entered_with # <<>> => task[p].entered_with = <<None, None>>
       /\ Ended(p) => CacheEmpty

\* C1, the part that holds: the cache is empty at the entry of the try block
\* and at the end of every session that entered it.
C1_CacheEmptyAfterEvaluation ==
    \A p \in Sessions :
       /\ task[p].entered_with # <<>> => task[p].entered_with = <<None, None>>
       /\ Ended(p) /\ task[p].outcome # "skipped" => CacheEmpty

\* A skipped session has ended and the cache still holds the spool that
\* component_init fetched.
C1_SkippedWithCache ==
    \E p \in Sessions :
       Ended(p) /\ task[p].outcome = "skipped" /\ ~IsNone(cached_spool_info)
                /\ ~IsNone(cached_spool_id)

\* ------------------------------------------------------------------- C2
\* C2: in both modes a material or name mismatch of severity warning or info
\* never fails the verdict and never pauses: a session fails or pauses only
\* if a violation of severity error was reported (a weight shortfall, a
\* spool that could not be fetched, a mismatch under severity error).
C2_OnlyErrorsFail ==
    \A p \in Sessions :
       (task[p].outcome = "fail" \/ task[p].pauses > 0)
       => \E i \in ErrorMsgs(p) : task[p].msgs[i].kind # "checks_failed"

\* The same for single-spool sessions alone, where it holds.
C2_OnlyErrorsFailSingle ==
    \A p \in Sessions :
       (~task[p].is_mmu /\ (task[p].outcome = "fail" \/ task[p].pauses > 0))
       => \E i \in ErrorMsgs(p) : task[p].msgs[i].kind # "checks_failed"

\* A multi-tool session was paused though all it reported was a mismatch
\* of severity warning or info.
C2_PausedOnWarning ==
    \E p \in Sessions :
       /\ Ended(p) /\ task[p].is_mmu /\ task[p].pauses = 1
       /\ ErrorMsgs(p) = MsgsOfKind(p, "checks_failed")
       /\ \E i \in 1..Len(task[p].msgs) :
             /\ task[p].msgs[i].kind \in {"material_failed", "name_failed"}
             /\ task[p].msgs[i].severity \in {"warning", "info"}

\* ------------------------------------------------------------------- C3
\* C3: with severity ignore the material rule (the name rule) passes for
\* every input in both modes, and no spool is fetched for it: no tool's
\* result and no single-spool result carries a failed material (name)
\* check, and the group's spools are not requested for the material.
C3_IgnoreAlwaysPasses ==
    \A p \in Sessions :
       /\ material_mismatch_severity = "ignore"
          => /\ \A i \in 1..Len(task[p].results) : task[p].results[i].material_ok
             /\ task[p].pc # "mmu_await_mfetch"
             /\ MsgsOfKind(p, "material_failed") = {}
       /\ filament_name_mismatch_severity = "ignore"
          => /\ \A i \in 1..Len(task[p].results) :
                   task[p].results[i].filament_name_ok
             /\ Ended(p) /\ ~task[p].is_mmu => task[p].filament_name_ok
             /\ MsgsOfKind(p, "name_failed") = {}

\* A multi-tool session failed a tool on a rule whose severity is ignore.
C3_FailedOnIgnored ==
    \E p \in Sessions :
       /\ Ended(p) /\ task[p].outcome = "fail"
       /\ \E i \in 1..Len(task[p].results) :
             \/ material_mismatch_severity = "ignore"
                /\ ~task[p].results[i].material_ok
             \/ filament_name_mismatch_severity = "ignore"
                /\ ~task[p].results[i].filament_name_ok

\* ------------------------------------------------------------------- C4
\* C4: pause_print is called exactly once in a session whose verdict is
\* fail and never in a session that passes or is skipped; when it is called
\* in a multi-tool session, every tool of the job has been gone through.
C4_PauseOnceOnFail ==
    \A p \in Sessions :
       /\ task[p].pauses <= 1
       /\ Ended(p) /\ task[p].outcome = "fail"
          => task[p].pauses = 1 /\ ~task[p].all_ok
       /\ Ended(p) /\ task[p].outcome \in {"pass", "skipped"}
          => task[p].pauses = 0
       /\ Ended(p) /\ task[p].outcome = "pass" => task[p].all_ok
       /\ task[p].pauses > 0 /\ task[p].is_mmu
          => /\ ~IsNone(task[p].metadata)
             /\ Len(task[p].results) = ToolCount(p)
             /\ \A i \in 1..Len(task[p].results) :
                   task[p].results[i].tool = i - 1

\* A multi-tool session of two tools failed and paused once.
C4_PausedAfterTwoTools ==
    \E p \in Sessions :
       /\ Ended(p) /\ task[p].outcome = "fail" /\ task[p].is_mmu
       /\ task[p].pauses = 1 /\ Len(task[p].results) = 2

\* ------------------------------------------------------------------- C5
\* C5: the weight rule passes when observed >= required + margin and fails
\* when observed < required + margin, and the deficit it reports on failure
\* is required + margin - observed, in single-spool mode and for each tool
\* in multi-tool mode.
C5_WeightRule ==
    \A p \in Sessions :
       LET t == task[p] IN
       /\ \A i \in MsgsOfKind(p, "weight_failed") :
             /\ Val(t.msgs[i].has) < Val(t.msgs[i].need) + weight_margin
             /\ Val(t.msgs[i].deficit)
                   = Val(t.msgs[i].need) + weight_margin - Val(t.msgs[i].has)
       /\ (/\ ~t.is_mmu /\ t.pc # "cpw_log_false"
           /\ ~IsNone(t.required_weight) /\ ~IsNone(t.remaining_weight))
          => /\ t.weight_ok <=> Val(t.remaining_weight)
                                   >= Val(t.required_weight) + weight_margin
             /\ ~t.weight_ok
                => \E i \in MsgsOfKind(p, "weight_failed") :
                      /\ t.msgs[i].has = t.remaining_weight
                      /\ t.msgs[i].need = t.required_weight
       /\ \A k \in 1..Len(t.results) :
             LET r == t.results[k] IN
             (r.status = "evaluated" /\ ~IsNone(r.remaining_weight))
             => /\ r.weight_ok <=> Val(r.remaining_weight)
                                      >= Val(r.required_weight) + weight_margin
                /\ ~r.weight_ok
                   => \E i \in MsgsOfKind(p, "weight_failed") :
                         /\ t.msgs[i].tool = Some(r.tool)
                         /\ t.msgs[i].has = r.remaining_weight
                         /\ t.msgs[i].need = r.required_weight

\* With a margin of 5 g the first tool of a job has 82 g for 80 g and fails,
\* short by 3 g; the second has 82 g for 77 g and passes.
C5_FirstToolShortBy3 ==
    \E p \in Sessions :
       /\ weight_margin = 5
       /\ Len(task[p].results) = 2
       /\ ~task[p].results[1].weight_ok
       /\ task[p].results[2].status = "evaluated"
       /\ task[p].results[2].weight_ok
       /\ task[p].results[2].remaining_weight = Some(82)
       /\ task[p].results[2].required_weight = Some(77)
       /\ \E i \in MsgsOfKind(p, "weight_failed") :
             /\ task[p].msgs[i].tool = Some(0)
             /\ task[p].msgs[i].has = Some(82)
             /\ task[p].msgs[i].need = Some(80)
             /\ task[p].msgs[i].deficit = Some(3)

AbsentWeightMet(p) ==
    /\ enable_weight_check
    /\ \E i \in 1..Len(task[p].requests) :
          LET spool == spoolman_spools[task[p].requests[i].spool_id] IN
          ~IsNone(spool) /\ IsNone(Val(spool).remaining_weight)

\* C7: when the spool's remaining weight is absent the weight rule is
\* skipped and counts as pass, in single-spool mode and for an ungrouped
\* tool in multi-tool mode: the session completes with a verdict.
C7_AbsentWeightSkipped ==
    \A p \in Sessions :
       Ended(p) /\ AbsentWeightMet(p) => task[p].outcome \in {"pass", "fail"}

\* C7 in single-spool mode, where it holds: the rule is skipped with a
\* message and the weight check returns True.
C7_AbsentWeightSkippedSingle ==
    \A p \in Sessions :
       ~task[p].is_mmu /\ Ended(p) /\ AbsentWeightMet(p)
       => /\ task[p].outcome \in {"pass", "fail"}
          /\ task[p].weight_ok
          /\ MsgsOfKind(p, "weight_failed") = {}

\* A multi-tool session ended by an exception on an ungrouped tool whose
\* spool reports no remaining weight: no verdict, no pause.
C7_RaisedOnAbsentWeight ==
    \E p \in Sessions :
       /\ Ended(p) /\ task[p].is_mmu /\ task[p].outcome = "exception"
       /\ AbsentWeightMet(p) /\ task[p].pauses = 0
       /\ Len(group(task[p])) = 1

\* ------------------------------------------------------------------- C8
\* C8: a session that fails sends exactly one message of severity error,
\* which names every violation.
C8_OneFailureMessage ==
    \A p \in Sessions :
       Ended(p) /\ task[p].outcome = "fail"
       => Cardinality(ErrorMsgs(p)) = 1

\* Single-spool mode, 80 g required, 82 g remaining, margin 5 g: the session
\* fails, pauses once, and has sent two error messages, of which only the
\* first carries the weights.
C8_TwoFailureMessages ==
    \E p \in Sessions :
       /\ ~task[p].is_mmu /\ Ended(p) /\ task[p].outcome = "fail"
       /\ task[p].pauses = 1 /\ weight_margin = 5
       /\ Len(task[p].msgs) = 3 /\ ErrorMsgs(p) = {2, 3}
       /\ task[p].msgs[2] = Msg("error", "weight_failed", None,
                                Some(82), Some(80), Some(3))
       /\ task[p].msgs[3] = Msg("error", "checks_failed", None,
                                None, None, None)

\* ------------------------------------------------------------------- C9
\* What a tool's iteration contributed to the verdict.
ToolPassed(r) ==
    r.status # "fetch_failed" /\ r.weight_ok /\ r.material_ok /\ r.filament_name_ok

\* C9: in multi-tool mode a spool that cannot be fetched fails its tool and
\* with it the verdict, and does not end the session: the loop goes on to
\* the next tool, and the verdict is decided only after every tool of the
\* job has been gone through.
C9_FetchFailureFailsAndContinues ==
    \A p \in Sessions :
       LET t == task[p] IN
       \A k \in 1..Len(t.results) :
          t.results[k].status = "fetch_failed"
          => /\ ~t.all_ok
             /\ \E i \in ErrorMsgs(p) :
                   /\ t.msgs[i].kind = "cannot_fetch"
                   /\ t.msgs[i].tool = Some(t.results[k].tool)
             /\ t.tool_index > t.results[k].tool
             /\ t.pc # "rc_log_passed" /\ t.outcome # "pass"
             /\ Decided(p)
                => /\ Len(t.results) = ToolCount(p)
                   /\ \A j \in 1..Len(t.results) : t.results[j].tool = j - 1

\* The spool of the first tool could not be fetched, the second tool was
\* evaluated after it and passed, and the session failed.
C9_SecondToolEvaluatedAfterFailure ==
    \E p \in Sessions :
       /\ Ended(p) /\ task[p].outcome = "fail"
       /\ Len(task[p].results) = 2
       /\ task[p].results[1].status = "fetch_failed"
       /\ task[p].results[2].status = "evaluated"
       /\ ToolPassed(task[p].results[2])

\* ------------------------------------------------------------------ C10
\* C10: in multi-tool mode a tool whose gate has no spool assigned is
\* skipped, passing weight, material and name, without a request to
\* Spoolman for it and with a warning only; the other tools are gone
\* through as usual and the verdict is that of the other tools.
C10_UnassignedToolSkipped ==
    \A p \in Sessions :
       LET t == task[p] IN
       \A k \in 1..Len(t.results) :
          t.results[k].status = "unassigned"
          => /\ ToolPassed(t.results[k])
             /\ IsNone(t.results[k].spool_id)
             /\ \A i \in 1..Len(t.requests) :
                   t.requests[i].tool # Some(t.results[k].tool)
             /\ \A i \in 1..Len(t.msgs) :
                   t.msgs[i].tool = Some(t.results[k].tool)
                   => /\ t.msgs[i].kind = "no_spool_assigned"
                      /\ t.msgs[i].severity = "warning"
             /\ Decided(p)
                => /\ Len(t.results) = ToolCount(p)
                   /\ t.all_ok <=> \A j \in 1..Len(t.results) :
                                      j # k => ToolPassed(t.results[j])

\* The gate of the first tool has no spool; the second tool was evaluated,
\* passed its weight check and failed its material check under severity
\* error, and so the session failed.
C10_VerdictOfTheOtherTool ==
    \E p \in Sessions :
       /\ Ended(p) /\ task[p].outcome = "fail"
       /\ Len(task[p].results) = 2
       /\ task[p].results[1].status = "unassigned"
       /\ task[p].results[2].status = "evaluated"
       /\ material_mismatch_severity = "error"
       /\ ~task[p].results[2].material_ok
       /\ task[p].results[2].weight_ok
       /\ ~IsNone(task[p].results[2].remaining_weight)
       /\ Len(task[p].requests) = 1

\* ------------------------------------------------------------------ C11
\* The gates of the group of a tool's gate, from the backend's maps.
GroupGates(tool) ==
    LET cfg == mmu_backend_config IN
    { g \in 0..(Len(cfg.endless_spool_groups) - 1) :
        cfg.endless_spool_groups[g + 1]
           = cfg.endless_spool_groups[cfg.ttg_map[tool + 1] + 1] }

\* What Spoolman reports as the remaining weight behind a gate: 0 for a
\* gate without a spool, for a spool that cannot be fetched, and for a
\* spool without a remaining weight.
GateWeight(g) ==
    LET cfg == mmu_backend_config
        id == IF g < Len(cfg.gate_spool_id) THEN cfg.gate_spool_id[g + 1]
              ELSE None
    IN
    IF IsNone(id) THEN 0
    ELSE IF IsNone(spoolman_spools[Val(id)]) THEN 0
    ELSE IF IsNone(Val(spoolman_spools[Val(id)]).remaining_weight) THEN 0
    ELSE Val(Val(spoolman_spools[Val(id)]).remaining_weight)

RECURSIVE SumOver(_)
SumOver(gates) ==
    IF gates = {} THEN 0
    ELSE LET g == CHOOSE x \in gates : TRUE IN
         GateWeight(g) + SumOver(gates \ {g})

\* C11: in multi-tool mode the weight rule of a tool whose gate is in a
\* group of more than one gate compares the sum of the remaining weights of
\* the group's gates that have a spool whose fetch succeeds; a gate without
\* a spool or with a failed fetch is left out and the tool is still
\* evaluated.
C11_GroupWeightIsSum ==
    \A p \in Sessions :
       LET t == task[p] IN
       \A k \in 1..Len(t.results) :
          LET r == t.results[k] IN
          (/\ enable_weight_check
           /\ r.status \in {"evaluated"}
           /\ Cardinality(GroupGates(r.tool)) > 1)
          => /\ r.remaining_weight = Some(SumOver(GroupGates(r.tool)))
             /\ r.weight_ok <=> SumOver(GroupGates(r.tool))
                                   >= Val(r.required_weight) + weight_margin

\* Both gates of a group hold a spool of 82 g: the tool is checked against
\* 164 g and passes with a margin of 5 g.
C11_TwoSpoolsSummed ==
    \E p \in Sessions :
       /\ weight_margin = 5
       /\ Len(task[p].results) >= 1
       /\ task[p].results[1].status = "evaluated"
       /\ Cardinality(GroupGates(0)) = 2
       /\ task[p].results[1].remaining_weight = Some(164)
       /\ task[p].results[1].weight_ok

\* The second spool of the group cannot be fetched: the sum is that of the
\* first spool alone and the tool is evaluated.
C11_FailedFetchLeftOut ==
    \E p \in Sessions :
       /\ Len(task[p].results) >= 1
       /\ task[p].results[1].status = "evaluated"
       /\ Cardinality(GroupGates(0)) = 2
       /\ Len(mmu_backend_config.gate_spool_id) = 2
       /\ IsNone(spoolman_spools[2])
       /\ task[p].results[1].remaining_weight = Some(82)

\* ------------------------------------------------------------------ C12
\* The lower-cased, non-empty materials of the spools behind the gates of a
\* tool's group, as Spoolman reports them.
GroupMaterials(tool) ==
    LET cfg == mmu_backend_config IN
    { lower(strip(Val(spoolman_spools[id]).filament.material)) :
        id \in { i \in SpoolIds :
                   /\ ~IsNone(spoolman_spools[i])
                   /\ strip(Val(spoolman_spools[i]).filament.material) # <<>>
                   /\ \E g \in GroupGates(tool) :
                         /\ g < Len(cfg.gate_spool_id)
                         /\ cfg.gate_spool_id[g + 1] = Some(i) } }

\* The material the job asks for a tool, lower-cased.
MetadataMaterial(p, tool) ==
    lower(strip(Val(task[p].metadata).filament_type[tool + 1]))

\* The material rule was reached for the tool of a result.
MaterialRuleApplies(p, r) ==
    /\ enable_material_check
    /\ r.status = "evaluated"
    /\ r.tool < Len(Val(task[p].metadata).filament_type)

\* C12: in multi-tool mode the material of a grouped tool is the one
\* lower-cased material its group's spools share, and that is compared with
\* the metadata; with no material or more than one in the group the rule is
\* skipped for the tool: nothing is compared, the tool's material result is
\* pass, and an information message is all that is sent.
C12_GroupMaterialConsensus ==
    \A p \in Sessions :
       LET t == task[p] IN
       \A k \in 1..Len(t.results) :
          LET r == t.results[k]
              materials == GroupMaterials(r.tool) IN
          (MaterialRuleApplies(p, r) /\ Cardinality(GroupGates(r.tool)) > 1)
          => IF Cardinality(materials) = 1
             THEN /\ r.spool_material = Some(CHOOSE sm \in materials : TRUE)
                  /\ r.material_ok
                        <=> Val(r.spool_material) = MetadataMaterial(p, r.tool)
             ELSE /\ IsNone(r.spool_material)
                  /\ r.material_ok
                  /\ \A i \in MsgsOfKind(p, "material_failed") :
                        t.msgs[i].tool # Some(r.tool)
                  /\ \E i \in MsgsOfKind(p, "no_material_data") :
                        t.msgs[i].tool = Some(r.tool)

\* The spools of a group are of PLA and of ABS, the job asks for pla: the
\* material rule is skipped for the tool and the session passes.
C12_AmbiguousGroupSkipped ==
    \E p \in Sessions :
       /\ Ended(p) /\ task[p].outcome = "pass"
       /\ Len(task[p].results) >= 1
       /\ MaterialRuleApplies(p, task[p].results[1])
       /\ GroupMaterials(0) = {lower(S_PLA), lower(S_ABS)}
       /\ IsNone(task[p].results[1].spool_material)
       /\ task[p].results[1].material_ok

\* Both spools of a group are of PLA and the job asks for pla: the rule
\* compares "pla" and passes.
C12_SharedMaterialCompared ==
    \E p \in Sessions :
       /\ Len(task[p].results) >= 1
       /\ MaterialRuleApplies(p, task[p].results[1])
       /\ Cardinality(GroupGates(0)) = 2
       /\ ~IsNone(spoolman_spools[1]) /\ ~IsNone(spoolman_spools[2])
       /\ task[p].results[1].spool_material = Some(lower(S_PLA))
       /\ task[p].results[1].material_ok

\* ------------------------------------------------------------------ C13
IsPrefix(a, b) == Len(a) <= Len(b) /\ \A i \in 1..Len(a) : a[i] = b[i]

\* The messages a session sent, as a set.
MessageSet(p) == { task[p].msgs[i] : i \in 1..Len(task[p].msgs) }

\* C13: of two run_checks calls in sequence with the same external state,
\* the second does what the first did: as long as its collaborators answer
\* it as they answered the first, it sends the same messages and the same
\* requests to Spoolman, and when it has ended on the same answers it has
\* the same outcome, the same pause decision and the same set of messages.
C13_SecondSessionRepeatsFirst ==
    \A p \in Sessions, q \in Sessions :
       (p < q /\ task[p].pc = "done" /\ task[q].pc # "idle"
              /\ IsPrefix(task[q].inputs, task[p].inputs))
       => /\ IsPrefix(task[q].msgs, task[p].msgs)
          /\ IsPrefix(task[q].requests, task[p].requests)
          /\ (task[q].pc = "done" /\ task[q].inputs = task[p].inputs)
             => /\ task[q].outcome = task[p].outcome
                /\ task[q].pauses = task[p].pauses
                /\ task[q].all_ok = task[p].all_ok
                /\ MessageSet(q) = MessageSet(p)
                /\ task[q].requests = task[p].requests
                /\ task[q].results = task[p].results

\* The first session met the spool that component_init had cached and
\* failed on its weight; the second session on the same answers has ended
\* as the first did.
C13_BothSessionsFailedAlike ==
    /\ task[1].pc = "done" /\ task[2].pc = "done"
    /\ task[1].outcome = "fail" /\ task[2].outcome = "fail"
    /\ task[2].inputs = task[1].inputs
    /\ ~task[1].is_mmu
    /\ MsgsOfKind(1, "weight_failed") # {}
    /\ Len(task[2].requests) = 1

\* ------------------------------------------------------------------ C14
\* The job lists a weight for a tool that the tool-to-gate map has no
\* entry for, and the session has come to that tool.
MappingMismatchMet(p) ==
    \E k \in 1..Len(task[p].results) : task[p].results[k].status = "unmapped"

\* C14: a tool with a required weight and no entry in the tool-to-gate map
\* aborts the session with one error: no tool after it is evaluated, an
\* error is reported, and the session does not pass.
C14_MappingMismatchAborts ==
    \A p \in Sessions :
       MappingMismatchMet(p)
       => /\ task[p].pc # "rc_log_passed" /\ task[p].outcome # "pass"
          /\ ErrorMsgs(p) # {}
          /\ \A k \in 1..Len(task[p].results) :
                task[p].results[k].status = "unmapped"
                => \A j \in (k + 1)..Len(task[p].results) :
                      task[p].results[j].status # "evaluated"

\* The job has two tools and the map one entry; the first tool passed and
\* the session passed without an error message and without a pause.
C14_PassedDespiteMismatch ==
    \E p \in Sessions :
       /\ Ended(p) /\ task[p].outcome = "pass"
       /\ Len(task[p].results) = 2
       /\ task[p].results[1].status = "evaluated"
       /\ task[p].results[2].status = "unmapped"
       /\ ErrorMsgs(p) = {} /\ task[p].pauses = 0

\* ------------------------------------------------------------------ C15
\* The material the job asks for differs from that of the active spool.
ActiveSpoolMaterialMismatch ==
    /\ ~IsNone(database_spool_id)
    /\ ~IsNone(spoolman_spools[Val(database_spool_id)])
    /\ ~IsNone(metadata_storage)
    /\ Len(Val(metadata_storage).filament_type) >= 1
    /\ LET spool_material ==
              strip(Val(spoolman_spools[Val(database_spool_id)]).filament.material)
           metadata_material == strip(Val(metadata_storage).filament_type[1])
       IN spool_material # <<>> /\ lower(spool_material) # lower(metadata_material)

\* A single-spool session went through its checks with every collaborator
\* answering.
SingleSessionEvaluated(p) ==
    /\ Ended(p) /\ ~task[p].is_mmu /\ ~IsNone(task[p].filename)
    /\ \A i \in 1..Len(task[p].inputs) : ~IsNone(task[p].inputs[i])

\* C15: in single-spool mode with the material check enabled and severity
\* error, a job whose material differs from the active spool's fails and
\* is paused.
C15_SingleMaterialErrorFails ==
    \A p \in Sessions :
       (/\ SingleSessionEvaluated(p)
        /\ enable_material_check /\ material_mismatch_severity = "error"
        /\ ActiveSpoolMaterialMismatch)
       => task[p].outcome = "fail" /\ task[p].pauses = 1

\* The active spool is of ABS, the job asks for pla, the material check is
\* enabled with severity error: the session fetched the spool, sent no
\* message about the material, passed and did not pause.
C15_PassedOnWrongMaterial ==
    \E p \in Sessions :
       /\ SingleSessionEvaluated(p)
       /\ enable_material_check /\ material_mismatch_severity = "error"
       /\ ActiveSpoolMaterialMismatch
       /\ Len(task[p].requests) = 1
       /\ task[p].outcome = "pass" /\ task[p].pauses = 0
       /\ MsgsOfKind(p, "material_failed") = {}

\* ------------------------------------------------------------------ C16
\* C16: within one multi-tool session each spool id is requested from
\* Spoolman at most once; tools and grouped gates that share a spool use
\* the record fetched before.
C16_SpoolFetchedOnce ==
    \A p \in Sessions :
       task[p].is_mmu
       => \A i \in 1..Len(task[p].requests), j \in 1..Len(task[p].requests) :
             i < j => task[p].requests[i].spool_id # task[p].requests[j].spool_id

\* Two ungrouped tools are mapped to gates that hold the same spool: the
\* session has requested that spool once for each tool, and both requests
\* were answered with the record.
C16_SharedSpoolFetchedTwice ==
    \E p \in Sessions :
       /\ Ended(p) /\ task[p].is_mmu
       /\ mmu_backend_config.endless_spool_groups = <<0, 1>>
       /\ Len(task[p].requests) = 2
       /\ task[p].requests[1] = [spool_id |-> 1, tool |-> Some(0)]
       /\ task[p].requests[2] = [spool_id |-> 1, tool |-> Some(1)]
       /\ Len(task[p].results) = 2
       /\ task[p].results[1].status = "evaluated"
       /\ task[p].results[2].status = "evaluated"

\* ------------------------------------------------------------------ C17
\* _get_current_filename has answered the session with no filename.
NoFilename(p) ==
    /\ p \in Sessions
    /\ task[p].inputs # <<>>
    /\ IsNone(task[p].inputs[1])

\* C17: without a current filename the session ends at once as skipped:
\* it sends the warning and returns, asks Spoolman for nothing, evaluates
\* no rule, reaches no verdict and does not pause.
C17_NoFilenameSkips ==
    \A p \in Sessions :
       NoFilename(p)
       => /\ task[p].pc \in {"rc_log_skip", "done"}
          /\ task[p].outcome \in {"none", "skipped"}
          /\ task[p].pc = "done" => task[p].outcome = "skipped"
          /\ task[p].requests = <<>>
          /\ task[p].results = <<>>
          /\ task[p].entered_with = <<>>
          /\ task[p].pauses = 0
          /\ task[p].inputs = <<None>>
          /\ task[p].msgs = << Msg("warning", "skipped_no_filename",
                                   None, None, None, None) >>

\* print_stats has no filename; the session has ended as skipped.
C17_SkippedWithoutFilename ==
    \E p \in Sessions :
       /\ IsNone(print_stats_filename)
       /\ NoFilename(p)
       /\ Ended(p) /\ task[p].outcome = "skipped"

\* ------------------------------------------------------------------ C18
\* C18: an exception of pause_print is not passed on to the caller: the
\* session has ended as a failed one, run_checks has returned, and the
\* cache has been cleared.
C18_PauseFailureContained ==
    \A p \in Sessions :
       task[p].pause_failed
       => /\ task[p].pc = "done"
          /\ task[p].outcome = "fail"
          /\ task[p].pauses = 1
          /\ CacheEmpty

\* pause_print raised in a failing multi-tool session; the session has
\* ended with its verdict and an empty cache.
C18_PauseRaisedSessionEnded ==
    \E p \in Sessions :
       /\ task[p].pause_failed /\ task[p].is_mmu
       /\ Ended(p) /\ task[p].outcome = "fail"
       /\ Len(task[p].requests) >= 1
       /\ CacheEmpty

\* ------------------------------------------------------------------ C19
\* The session is between the fetch of an ungrouped tool's record and the
\* evaluation of that tool's material and name rules.
HoldsRecord(p) ==
    /\ task[p].is_mmu
    /\ task[p].pc \in {"mmu_log_weight", "mmu_log_material"}
    /\ Cardinality(GroupGates(task[p].tool_index)) = 1

\* C19: when two sessions overlap, a session that has fetched the record
\* of a tool and has not finished that tool's rules finds its own record in
\* the cache (not cleared, not another spool's), and each session ends with
\* a verdict, as it does running alone on spools that report their weight.
C19_OverlappingSessionsKeepTheirRecords ==
    \A p \in Sessions :
       /\ HoldsRecord(p)
          => cached_spool_info = spoolman_spools[Val(task[p].spool_id)]
       /\ Ended(p) => task[p].outcome \in {"pass", "fail", "skipped"}

\* A session waits on the message of a failed weight rule with its tool's
\* material and name still to evaluate, and the other session, which began
\* later and has ended, has emptied the cache under it.
C19_RecordClearedByOtherSession ==
    \E p \in Sessions, q \in Sessions :
       /\ p # q
       /\ HoldsRecord(p) /\ task[p].pc = "mmu_log_weight"
       /\ Ended(q)
       /\ cached_spool_info = None

\* A session waits with the record of another spool in the cache: the
\* other session has fetched it for a different tool.
C19_RecordOverwrittenByOtherSession ==
    \E p \in Sessions, q \in Sessions :
       /\ p # q
       /\ HoldsRecord(p)
       /\ ~Ended(q) /\ task[q].is_mmu
       /\ task[q].tool_index # task[p].tool_index
       /\ ~IsNone(cached_spool_info)
       /\ cached_spool_info # spoolman_spools[Val(task[p].spool_id)]

\* A session has ended with an exception although every spool reports its
\* weight: it read the cache the other session had emptied.
C19_SessionRaisedUnderOverlap ==
    \E p \in Sessions :
       /\ Ended(p) /\ task[p].is_mmu
       /\ task[p].outcome \notin {"pass", "fail", "skipped"}
       /\ \A id \in SpoolIds :
             ~IsNone(spoolman_spools[id])
             => ~IsNone(Val(spoolman_spools[id]).remaining_weight)

\* ------------------------------------------------------------------ C20
\* The positions of the single-spool path and of the multi-tool path.
SinglePath ==
    {"is_await_db", "is_await_fetch",
     "cpw_log_true", "cpw_log_false", "cfn_log_true", "cfn_log_mismatch"}

MultiToolPath ==
    {"mmu_log_nometa", "mmu_await_refresh", "mmu_log_continue",
     "mmu_await_fetch", "mmu_await_wfetch", "mmu_log_weight",
     "mmu_await_mfetch", "mmu_log_material", "mmu_log_name"}

\* C20: the mode of a session is resolved once, with the filename known and
\* before the cache is cleared and anything is requested or evaluated; it
\* is multi-tool exactly when an MMU component is configured and its
\* backend reports itself enabled; and the session is only ever on the
\* path of its mode: a multi-tool session never on the single-spool path, a
\* single-spool session never on the multi-tool path.
C20_ModeResolvedOnce ==
    \A p \in Sessions :
       LET t == task[p] IN
       /\ IsNone(t.filename)
          => /\ t.pc \notin SinglePath \cup MultiToolPath
             /\ t.entered_with = <<>>
             /\ MsgsOfKind(p, "running") = {}
       /\ ~IsNone(t.filename)
          => /\ t.is_mmu <=> (mmu_server /\ mmu_backend_enabled)
             /\ Cardinality(MsgsOfKind(p, "running")) = 1
             /\ t.msgs[1].kind = "running"
             /\ t.pc = "rc_log_mode"
                => /\ t.entered_with = <<>>
                   /\ t.requests = <<>> /\ t.results = <<>>
                   /\ Len(t.msgs) = 1
             /\ t.is_mmu => t.pc \notin SinglePath
             /\ ~t.is_mmu
                => /\ t.pc \notin MultiToolPath
                   /\ t.results = <<>>
                   /\ \A i \in 1..Len(t.msgs) : IsNone(t.msgs[i].tool)

\* An MMU component is configured but its backend reports itself disabled:
\* the session has run the single-spool path, asked for the active spool,
\* and reached a verdict without a result of any tool.
C20_DisabledBackendRanSingle ==
    \E p \in Sessions :
       /\ mmu_server /\ ~mmu_backend_enabled
       /\ Ended(p) /\ ~task[p].is_mmu
       /\ task[p].outcome \in {"pass", "fail"}
       /\ task[p].entered_with # <<>>
       /\ Len(task[p].requests) >= 1
       /\ task[p].results = <<>>

\* The backend is enabled: the session has run the multi-tool path and has
\* a result for each of the two tools of its job.
C20_EnabledBackendRanMultiTool ==
    \E p \in Sessions :
       /\ mmu_server /\ mmu_backend_enabled
       /\ Ended(p) /\ task[p].is_mmu
       /\ task[p].outcome \in {"pass", "fail"}
       /\ Len(task[p].results) = MaxTools

\* ------------------------------------------------------------------ C21
\* The positions at which a task awaits the response to a spool request.
AwaitsFetch ==
    {"is_await_fetch", "mmu_await_fetch", "mmu_await_wfetch",
     "mmu_await_mfetch"}

\* The spool id of the request a task is waiting on.
AwaitedSpool(p) == task[p].requests[Len(task[p].requests)].spool_id

\* The task resumes from its await of a spool request in this step.
FetchReturns(p) == task[p].pc \in AwaitsFetch /\ task'[p] # task[p]

\* The messages of a frame that report a spool as not fetched.
CannotFetch(t) ==
    { i \in 1..Len(t.msgs) : t.msgs[i].kind = "cannot_fetch" }

\* The same request is sent again: same call site, same tool, same gate.
Retried(p) ==
    /\ Len(task'[p].requests) > Len(task[p].requests)
    /\ task'[p].pc = task[p].pc
    /\ task'[p].tool_index = task[p].tool_index
    /\ task'[p].group_pos = task[p].group_pos

\* C21: _fetch_spool_info never raises and never retries.  When the request
\* is answered with not-found, an error status or an exception, the caller
\* gets None: the task does not end with an exception, _init_spool and the
\* tool loop leave None in the cache, and the tool loop reports the tool as
\* not fetched.  On success the caller gets the record.  Resuming from one
\* request sends at most one further request, and never the same one again.
C21_FetcherNeverRaises ==
    [][\A p \in Tasks :
          FetchReturns(p)
          => LET id == AwaitedSpool(p)
                 found == ~IsNone(spoolman_spools[id])
                 at == task[p].pc
             IN
             /\ Len(task'[p].requests) <= Len(task[p].requests) + 1
             /\ ~Retried(p)
             /\ ~found
                => /\ task'[p].outcome # "exception"
                   /\ at \in {"is_await_fetch", "mmu_await_fetch"}
                      => cached_spool_info' = None
                   /\ at = "is_await_fetch" => cached_spool_id' = None
                   /\ at = "mmu_await_fetch"
                      => /\ task'[p].pc = "mmu_log_continue"
                         /\ ~task'[p].all_ok
                         /\ task'[p].msgs[Len(task'[p].msgs)].kind
                               = "cannot_fetch"
             /\ found /\ at = "is_await_fetch"
                => /\ cached_spool_info' = spoolman_spools[id]
                   /\ cached_spool_id' = Some(id)
             /\ found /\ at = "mmu_await_fetch"
                => CannotFetch(task'[p]) = CannotFetch(task[p])
    ]_vars

\* The request for the spool of the first tool was answered with a failure:
\* the session has sent that one request, holds nothing in the cache, and
\* goes on to the next tool after its message.
C21_FailedFetchReturnedNone ==
    \E p \in Sessions :
       /\ task[p].is_mmu /\ task[p].pc = "mmu_log_continue"
       /\ task[p].tool_index = 0
       /\ task[p].msgs[Len(task[p].msgs)].kind = "cannot_fetch"
       /\ Len(task[p].requests) = 1
       /\ IsNone(spoolman_spools[task[p].requests[1].spool_id])
       /\ cached_spool_info = None
       /\ task[p].outcome = "none"

\* In single-spool mode the fetch of the active spool failed for both rules:
\* the session has sent one request for each call of _init_spool and ended
\* with a verdict.
C21_FailedFetchOncePerCall ==
    \E p \in Sessions :
       /\ Ended(p) /\ ~task[p].is_mmu
       /\ task[p].outcome \in {"pass", "fail"}
       /\ Len(task[p].requests) = 2
       /\ \A i \in 1..2 : IsNone(spoolman_spools[task[p].requests[i].spool_id])

\* ------------------------------------------------------------------ C22
\* A single-spool session that has entered its checks.
SingleSession(p) ==
    /\ ~task[p].is_mmu
    /\ task[p].entered_with # <<>>

\* The answers of database.get_item the session has received so far.
ItemAnswers(p) == 2..Len(task[p].inputs)

\* The record of the active spool is not to be had: no active spool id is
\* set, or Spoolman has no record for it.
ActiveSpoolUnavailable(p) ==
    \/ \A i \in ItemAnswers(p) : IsNone(task[p].inputs[i])
    \/ IsNone(database_spool_id)
    \/ IsNone(spoolman_spools[Val(database_spool_id)])

\* C22: in single-spool mode, without an active spool id or with a failing
\* fetch of the active spool, both rules pass: no error message, the verdict
\* is pass, the job is not paused.  With a record to be had it is requested
\* at most once in a session: the name rule uses the record the weight rule
\* has cached.
C22_SingleModeFailsOpen ==
    \A p \in Sessions :
       SingleSession(p)
       => /\ ActiveSpoolUnavailable(p)
             => /\ task[p].all_ok
                /\ ErrorMsgs(p) = {}
                /\ task[p].pauses = 0
                /\ task[p].pc \notin {"rc_log_failed", "rc_await_pause"}
                /\ Ended(p) => task[p].outcome = "pass"
          /\ ~ActiveSpoolUnavailable(p) => Len(task[p].requests) <= 1

\* The fetch of the active spool has failed for the weight rule and again
\* for the name rule; both have reported the spool as unavailable and the
\* session has passed without a pause.
C22_PassedWithoutRecord ==
    \E p \in Sessions :
       /\ SingleSession(p) /\ Ended(p)
       /\ ~IsNone(database_spool_id)
       /\ IsNone(spoolman_spools[Val(database_spool_id)])
       /\ Len(task[p].requests) = 2
       /\ Cardinality(MsgsOfKind(p, "no_active_spool")) = 2
       /\ task[p].outcome = "pass" /\ task[p].pauses = 0

\* No active spool id is set for either rule: nothing was requested and
\* the session has passed.
C22_PassedWithoutActiveSpool ==
    \E p \in Sessions :
       /\ SingleSession(p) /\ Ended(p)
       /\ Len(task[p].inputs) = 3
       /\ IsNone(task[p].inputs[2]) /\ IsNone(task[p].inputs[3])
       /\ task[p].requests = <<>>
       /\ task[p].outcome = "pass" /\ task[p].pauses = 0

\* Both rules have run on the record of one request: the weight rule has
\* failed on it and the name rule has found a mismatch in it.
C22_NameRuleReusedRecord ==
    \E p \in Sessions :
       /\ SingleSession(p) /\ Ended(p)
       /\ Len(task[p].inputs) >= 3
       /\ ~IsNone(task[p].inputs[2]) /\ ~IsNone(task[p].inputs[3])
       /\ Len(task[p].requests) = 1
       /\ MsgsOfKind(p, "weight_failed") # {}
       /\ MsgsOfKind(p, "name_failed") # {}

\* ------------------------------------------------------------------ C23
\* C23: at every suspension point, whatever the order and interleaving of
\* component_init, the sessions and their cache clears, a cached spool id
\* comes with its record: cached_spool_id is set only if cached_spool_info
\* is set.
C23_CachedIdHasRecord ==
    ~IsNone(cached_spool_id) => ~IsNone(cached_spool_info)

\* component_init has cached the active spool with its id after a
\* multi-tool session had cleared the cache, and the session, now past a
\* failed fetch for a tool, has left None in cached_spool_info: the id is
\* cached without a record.
C23_IdLeftWithoutRecord ==
    \E p \in Sessions :
       /\ task[p].is_mmu /\ task[p].pc = "mmu_log_continue"
       /\ CannotFetch(task[p]) # {}
       /\ task[InitTaskId].pc = "done"
       /\ cached_spool_id = database_spool_id
       /\ ~IsNone(cached_spool_id)
       /\ IsNone(cached_spool_info)

====
